---- MODULE Spec2Model ----
(***************************************************************************)
(* Model of the glos-geo notebooks.                                        *)
(*                                                                         *)
(*   hex-pdal.ipynb : per-source H3 indexing loop, per-level merge and     *)
(*                    dedup loop, CSB metadata indexing loop.              *)
(*   part_000       : CSB order submission, order status query, dataset   *)
(*                    construction, per-period dedup and write loop,       *)
(*                    median-depth aggregation cell.                       *)
(*                                                                         *)
(* File names and date labels are sequences of one-character strings, so   *)
(* that glob patterns and strftime are computed character by character.    *)
(* A data frame is a sequence of [idx, row] pairs: idx is the pandas       *)
(* index label of the row, row the tuple of its columns.                   *)
(***************************************************************************)
EXTENDS Integers, Sequences, FiniteSets, TLC

VARIABLES
    nb,          \* which notebook the kernel runs: "hex", "csb"; "dedup": the dedup step alone
    pc,          \* position of the run in the notebook
    fs,          \* output directory: file name -> [rows, kind, level, by]
    lof,         \* hex: list of source file names (glob of *.xyz)
    fpos,        \* hex: position of f in lof
    coords,      \* hex: points returned by parse_coords for f
    hex_level,   \* hex: inner loop variable
    allPts,      \* hex (history): points of every source parsed so far
    indexed,     \* hex (history): <<source, level>> pairs whose artifact was written
    failedSrc,   \* hex (history): sources whose read raised
    i,           \* hex: merge loop variable
    mergeRuns,   \* hex: number of times the merge cell was started
    mergeRead,   \* hex (history): level -> files read by the latest merge at that level
    lod,         \* hex: directory listing of the CSB data directory
    hex_metadata,\* hex: global metadata, the return value of json_extract_platformID_date
    post_status, \* csb (history): status code of the response to the order submission
    csb,         \* csb: return value of csb_api_call
    order,       \* csb: state of the order on the remote service
    firstQuery,  \* csb (history): order state seen by the status query
    csb_csv,     \* csb: return value of api_call_status
    csv,         \* csb (history): soundings of the csv file read by create_csb_gdf
    csb_gdf,     \* csb: frame returned by create_csb_gdf
    gkeys,       \* csb: group keys the per-period loop has still to visit
    df,          \* csb: global df read by the median cell (no cell binds it)
    grouped_df,  \* csb: global grouped_df, bound by the median cell
    X,           \* dedup: input collection
    once,        \* dedup: drop_duplicates().reset_index(drop=True) of X
    twice        \* dedup: the same step applied to once

vars == <<nb, pc, fs, lof, fpos, coords, hex_level, allPts, indexed, failedSrc,
          i, mergeRuns, mergeRead, lod, hex_metadata, post_status, csb, order, firstQuery,
          csb_csv, csv, csb_gdf, gkeys, df, grouped_df, X, once, twice>>

hexVars == <<lof, fpos, coords, hex_level, allPts, indexed, failedSrc,
             i, mergeRuns, mergeRead, lod, hex_metadata>>
csbVars == <<post_status, csb, order, firstQuery, csb_csv, csv, csb_gdf, gkeys, df, grouped_df>>
dedupVars == <<X, once, twice>>

----------------------------------------------------------------------------
(* Bounds of the model *)

MaxSources == 2      \* at most this many *.xyz files in the input directory
MaxPoint == 3        \* coordinates are the points 0..MaxPoint of a line
MaxMergeRuns == 2    \* the merge cell is run at most this many times
MaxDirs == 1         \* at most this many entries in the CSB data directory
MaxCsvRows == 3      \* at most this many soundings in the ordered csv
MaxMonth == 2        \* soundings are timestamped in months 1..MaxMonth of 2021
MaxLen == 3          \* at most this many records in a deduplicated collection

Points == 0..MaxPoint

----------------------------------------------------------------------------
(* Python values *)

None == [type |-> "NoneType"]
NaN == <<"N", "a", "N">>
NaT == [y |-> 0, m |-> 0]
\* a global name that no executed cell has bound
Unbound == [type |-> "unbound"]

RECURSIVE SeqsUpTo(_, _)
SeqsUpTo(S, n) ==
    IF n = 0 THEN {<<>>}
    ELSE LET shorter == SeqsUpTo(S, n - 1)
         IN  shorter \cup {Append(s, e) : s \in {t \in shorter : Len(t) = n - 1}, e \in S}

Range(s) == {s[k] : k \in 1..Len(s)}

\* every ordering of a finite set, as sequences without repetition
Orderings(S) ==
    {s \in [1..Cardinality(S) -> S] : \A a, b \in 1..Cardinality(S) : a # b => s[a] # s[b]}

----------------------------------------------------------------------------
(* Strings *)

Digit(d) == <<"0", "1", "2", "3", "4", "5", "6", "7", "8", "9">>[d + 1]

RECURSIVE ToStr(_)
ToStr(n) == IF n < 10 THEN <<Digit(n)>> ELSE ToStr(n \div 10) \o <<Digit(n % 10)>>

\* glob pattern "*" followed by a literal suffix: the name ends with the suffix,
\* and "*" does not match a name that begins with "."
glob_star(name, suffix) ==
    /\ Len(name) >= Len(suffix)
    /\ SubSeq(name, Len(name) - Len(suffix) + 1, Len(name)) = suffix
    /\ name # <<>> /\ name[1] # "."

GeojsonExt == <<".", "g", "e", "o", "j", "s", "o", "n">>
ShpExt == <<".", "s", "h", "p">>
XyzExt == <<".", "x", "y", "z">>

----------------------------------------------------------------------------
(* H3: cells and their boundaries.  The grid is a line cut into cells of   *)
(* Width(res) points; a cell is identified by its resolution and number.   *)

Width(res) == 13 - res

geo_to_h3(p, res) == [res |-> res, id |-> p \div Width(res)]

\* closed ring of the cell: first vertex repeated as last
h3_to_geo_boundary(h) ==
    LET lo == h.id * Width(h.res)
    IN  <<lo, lo + Width(h.res), lo>>

----------------------------------------------------------------------------
(* pandas / geopandas frames *)

RangeIndex(rows) == [k \in 1..Len(rows) |-> [idx |-> k - 1, row |-> rows[k]]]

Rows(frame) == [k \in 1..Len(frame) |-> frame[k].row]

RECURSIVE KeepFirst(_, _)
KeepFirst(frame, k) ==
    IF k = 0 THEN <<>>
    ELSE LET before == KeepFirst(frame, k - 1)
         IN  IF \E j \in 1..(k - 1) : frame[j].row = frame[k].row
             THEN before
             ELSE Append(before, frame[k])

RECURSIVE KeepUnlessRepeated(_, _)
KeepUnlessRepeated(frame, k) ==
    IF k = 0 THEN <<>>
    ELSE IF k > 1 /\ frame[k - 1].row = frame[k].row
         THEN KeepUnlessRepeated(frame, k - 1)
         ELSE Append(KeepUnlessRepeated(frame, k - 1), frame[k])

\* variant: only a row equal to the row just before it is dropped
drop_duplicates_adjacent(frame) == KeepUnlessRepeated(frame, Len(frame))

\* DataFrame.drop_duplicates(): keep the first of equal rows, with its index label
drop_duplicates(frame) == KeepFirst(frame, Len(frame))

\* variant: the index labels are kept
reset_index_skipped(frame) == frame

\* DataFrame.reset_index(drop=True)
reset_index(frame) == RangeIndex(Rows(frame))

Dedup(frame) == reset_index(drop_duplicates(frame))

RECURSIVE ConcatRows(_)
ConcatRows(frames) ==
    IF frames = <<>> THEN <<>>
    ELSE Rows(Head(frames)) \o ConcatRows(Tail(frames))

\* pd.concat(frames, ignore_index=True)
concat(frames) == RangeIndex(ConcatRows(frames))

\* GeoDataFrame.to_file: the index is not part of the vector file
to_file(frame, kind, level, by) ==
    [rows |-> Rows(frame), kind |-> kind, level |-> level, by |-> by]

\* gpd.read_file
read_file(file) == RangeIndex(file.rows)

----------------------------------------------------------------------------
(* hex-pdal.ipynb *)

survname == <<"t", "e", "s", "t">>

Levels == 6..10

SourceName(k) == <<<<"a", "b", "c", "d">>[k]>> \o XyzExt

\* name of the intermediate artifact written by the indexing loop
ArtifactName(surv, level) == surv \o <<"_", "h", "3", "-">> \o ToStr(level) \o GeojsonExt

formatted_value(level) == IF level < 10 THEN <<"0">> \o ToStr(level) ELSE ToStr(level)

\* variant: the level output is named level<NN>.geojson
LevelOutName_plain(level, ext) == <<"l", "e", "v", "e", "l">> \o formatted_value(level) \o ext

\* name of the persisted level output written by the merge loop
LevelOutName(level, ext) ==
    <<"l", "e", "v", "e", "l">> \o formatted_value(level) \o <<"_", "d", "e", "d", "u", "p">> \o ext

\* files of the output directory (which is also the input directory)
Directory == DOMAIN fs \cup Range(lof)

\* glob(os.path.join(outpath, f"*{level}.geojson"))
gjson_lof(level) == {n \in Directory : glob_star(n, ToStr(level) \o GeojsonExt)}

\* set of H3 indices of the points of a source at one resolution
h3_indices(h3_res, pts) == {geo_to_h3(p, h3_res) : p \in pts}

\* create_h3_hex, for one iteration order of the set of indices
create_h3_hex(order_of_set) ==
    [k \in 1..Len(order_of_set) |-> h3_to_geo_boundary(order_of_set[k])]

\* frame built by gdf2poly
gdf2poly(h3_polys, surveyid) ==
    RangeIndex([k \in 1..Len(h3_polys) |-> [survey_id |-> surveyid, geometry |-> h3_polys[k]]])

NoFiles == [n \in {} |-> None]

HexIdle ==
    /\ lof = <<>> /\ fpos = 1 /\ coords = {} /\ hex_level = 6
    /\ allPts = {} /\ indexed = {} /\ failedSrc = {}
    /\ i = 6 /\ mergeRuns = 0 /\ mergeRead = [l \in Levels |-> {}]
    /\ lod = <<>> /\ hex_metadata = Unbound

CsbIdle ==
    /\ post_status = 0 /\ csb = None /\ order = "none" /\ firstQuery = "none"
    /\ csb_csv = None /\ csv = <<>> /\ csb_gdf = <<>> /\ gkeys = <<>>
    /\ df = Unbound /\ grouped_df = Unbound

DedupIdle == X = <<>> /\ once = <<>> /\ twice = <<>>

InitHex ==
    /\ nb = "hex" /\ pc = "for_f"
    /\ fs = NoFiles
    /\ lof \in {[k \in 1..n |-> SourceName(k)] : n \in 0..MaxSources}
    /\ fpos = 1 /\ coords = {} /\ hex_level = 6
    /\ allPts = {} /\ indexed = {} /\ failedSrc = {}
    /\ i = 6 /\ mergeRuns = 0 /\ mergeRead = [l \in Levels |-> {}]
    /\ lod = <<>> /\ hex_metadata = Unbound
    /\ CsbIdle /\ DedupIdle

\* for f in lof: coords = parse_coords(f, "text"); the PDAL pipeline raises on
\* a file it cannot read, and nothing in the loop catches it
ParseCoords ==
    /\ nb = "hex" /\ pc = "for_f" /\ fpos <= Len(lof)
    /\ \/ /\ failedSrc' = failedSrc \cup {fpos}
          /\ pc' = "aborted"
          /\ UNCHANGED <<coords, hex_level, allPts>>
       \/ \E pts \in (SUBSET Points) \ {{}} :
             /\ coords' = pts
             /\ allPts' = allPts \cup pts
             /\ hex_level' = 6
             /\ pc' = "for_level"
             /\ UNCHANGED failedSrc
    /\ UNCHANGED <<nb, fs, lof, fpos, indexed, i, mergeRuns, mergeRead, lod, hex_metadata>>
    /\ UNCHANGED <<csbVars, dedupVars>>

\* for hex_level in range(6, 11): create_h3_hex, gdf2poly
IndexLevel ==
    /\ nb = "hex" /\ pc = "for_level"
    /\ \E ord \in Orderings(h3_indices(hex_level, coords)) :
          LET output == ArtifactName(survname, hex_level)
              h3_hex == create_h3_hex(ord)
              gdf    == gdf2poly(h3_hex, survname)
          IN  fs' = (output :> to_file(gdf, "artifact", hex_level, fpos)) @@ fs
    /\ indexed' = indexed \cup {<<fpos, hex_level>>}
    /\ IF hex_level < 10
       THEN /\ hex_level' = hex_level + 1
            /\ UNCHANGED <<pc, fpos>>
       ELSE /\ pc' = "for_f"
            /\ fpos' = fpos + 1
            /\ UNCHANGED hex_level
    /\ UNCHANGED <<nb, lof, coords, allPts, failedSrc, i, mergeRuns, mergeRead, lod, hex_metadata>>
    /\ UNCHANGED <<csbVars, dedupVars>>

\* the indexing cell has ended; the merge cell starts: for i in range(6, 11)
StartMerge ==
    /\ nb = "hex" /\ pc = "for_f" /\ fpos > Len(lof)
    /\ pc' = "for_i" /\ i' = 6 /\ mergeRuns' = mergeRuns + 1
    /\ mergeRead' = [l \in Levels |-> {}]
    /\ UNCHANGED <<nb, fs, lof, fpos, coords, hex_level, allPts, indexed, failedSrc, lod, hex_metadata>>
    /\ UNCHANGED <<csbVars, dedupVars>>

\* the merge cell is run again over the same directory
RerunMerge ==
    /\ nb = "hex" /\ pc = "merged" /\ mergeRuns < MaxMergeRuns
    /\ pc' = "for_i" /\ i' = 6 /\ mergeRuns' = mergeRuns + 1
    /\ mergeRead' = [l \in Levels |-> {}]
    /\ UNCHANGED <<nb, fs, lof, fpos, coords, hex_level, allPts, indexed, failedSrc, lod, hex_metadata>>
    /\ UNCHANGED <<csbVars, dedupVars>>

\* one iteration of the merge loop: glob, read, concat, drop_duplicates, write
MergeLevel ==
    /\ nb = "hex" /\ pc = "for_i"
    /\ IF gjson_lof(i) = {}
       THEN \* pd.concat([]) raises ValueError
            /\ pc' = "aborted"
            /\ UNCHANGED <<fs, i, mergeRead>>
       ELSE /\ \E names \in Orderings(gjson_lof(i)) :
                  LET gjson_gdf == [k \in 1..Len(names) |-> read_file(fs[names[k]])]
                      comb_gdf == concat(gjson_gdf)
                      deduplicated_gdf == Dedup(comb_gdf)
                  IN  fs' = (LevelOutName(i, GeojsonExt) :> to_file(deduplicated_gdf, "level", i, 0))
                            @@ (LevelOutName(i, ShpExt) :> to_file(deduplicated_gdf, "shape", i, 0))
                            @@ fs
            /\ mergeRead' = [mergeRead EXCEPT ![i] =
                                {[name |-> n, kind |-> fs[n].kind, level |-> fs[n].level, by |-> fs[n].by]
                                    : n \in gjson_lof(i)}]
            /\ IF i < 10
               THEN i' = i + 1 /\ UNCHANGED pc
               ELSE pc' = "merged" /\ UNCHANGED i
    /\ UNCHANGED <<nb, lof, fpos, coords, hex_level, allPts, indexed, failedSrc, mergeRuns, lod, hex_metadata>>
    /\ UNCHANGED <<csbVars, dedupVars>>

\* name of the k-th entry of the CSB data directory
DirName(k) == <<"d">> \o ToStr(k)

\* value returned by json_extract_platformID_date for a readable metadata.json
PlatformIdDate == <<"uniqueID", "timeCode">>

\* lod = os.listdir(inpath): raises when the directory does not exist
ListDir ==
    /\ nb = "hex" /\ pc = "merged"
    /\ \/ /\ pc' = "aborted"
          /\ UNCHANGED lod
       \/ \E n \in 0..MaxDirs :
             /\ lod' = [k \in 1..n |-> DirName(k)]
             /\ pc' = "for_lod"
    /\ UNCHANGED <<nb, fs, lof, fpos, coords, hex_level, allPts, indexed, failedSrc,
                   i, mergeRuns, mergeRead, hex_metadata>>
    /\ UNCHANGED <<csbVars, dedupVars>>

\* for i in lod: the loop variable is the global i of the merge loop.
\* json_extract_platformID_date(jsonf) raises when metadata.json cannot be read;
\* otherwise parse_coords(surveyf), called without its reader_type argument,
\* raises TypeError.  Either way the first entry ends the loop and the run.
CsbMetaLoop ==
    /\ nb = "hex" /\ pc = "for_lod"
    /\ IF lod = <<>>
       THEN /\ pc' = "done"
            /\ UNCHANGED <<i, hex_metadata>>
       ELSE /\ i' = Head(lod)
            /\ \E readable \in BOOLEAN :
                  hex_metadata' = IF readable THEN PlatformIdDate ELSE hex_metadata
            /\ pc' = "aborted"
    /\ UNCHANGED <<nb, fs, lof, fpos, coords, hex_level, allPts, indexed, failedSrc,
                   mergeRuns, mergeRead, lod>>
    /\ UNCHANGED <<csbVars, dedupVars>>

NextHex ==
    ParseCoords \/ IndexLevel \/ StartMerge \/ RerunMerge \/ MergeLevel \/ ListDir \/ CsbMetaLoop

SpecHex == InitHex /\ [][NextHex]_vars

----------------------------------------------------------------------------
(* part_000: crowd-sourced bathymetry order, dataset, per-period outputs *)

metadata ==
    [survey |-> "Crowdsourced Bathymetry", surveytype |-> "SBES",
     url |-> "https://www.ncei.noaa.gov/maps/iho_dcdb/"]

\* JSON body of the response that creates the order
OrderResponse == [type |-> "dict", message |-> "extract request created.", url |-> "order/1"]

\* output_location of the finished order, as its "/"-separated parts
OutputLocation == <<"s3:", "", "order-pickup", "order1.csv">>

\* variant: the body is returned whatever the status
csb_api_call_unchecked(status_code, body) == body

\* csb_api_call: the value returned for a response with this status code and body
csb_api_call(status_code, body) == IF status_code = 201 THEN body ELSE None

\* api_call_status: the value returned for a response with this status code and body
api_call_status(status_code, json_data) ==
    IF status_code = 200
    THEN IF json_data.status = "complete"
         THEN [type |-> "str", value |-> json_data.output_location[Len(json_data.output_location)]]
         ELSE None
    ELSE None

RECURSIVE ZeroPad(_, _)
ZeroPad(n, width) ==
    IF Len(ToStr(n)) >= width THEN ToStr(n) ELSE <<"0">> \o ZeroPad(n, width - 1)

\* Series.dt.strftime('%Y%m'); a missing time has no label
strftime_Ym(t) == IF t = NaT THEN NaN ELSE ZeroPad(t.y, 4) \o ZeroPad(t.m, 2)

Times == {[y |-> 2021, m |-> mm] : mm \in 1..MaxMonth} \cup {NaT}

Providers == {"org1", "org2"}

\* soundings of the csv; the depth column is dropped by keep_cols and left out
CsvRows == [provider : Providers, time : Times, pt : {0, 1, MaxPoint}]

\* create_csb_gdf, from the rows pd.read_csv returned
create_csb_gdf(csb_file, meta_dict) ==
    RangeIndex([k \in 1..Len(csb_file) |->
        LET h3_index == geo_to_h3(csb_file[k].pt, 11)
        IN  [survey     |-> meta_dict.survey,
             surveyOrg  |-> csb_file[k].provider,
             surveyDate |-> strftime_Ym(csb_file[k].time),
             surveyType |-> meta_dict.surveytype,
             URL        |-> meta_dict.url,
             h3_index   |-> h3_index,
             geometry   |-> h3_to_geo_boundary(h3_index)]])

Ord(c) == CHOOSE d \in 0..9 : Digit(d) = c

RECURSIVE LexLess(_, _)
LexLess(a, b) ==
    IF a = <<>> THEN b # <<>>
    ELSE IF b = <<>> THEN FALSE
    ELSE IF Head(a) = Head(b) THEN LexLess(Tail(a), Tail(b))
    ELSE Ord(Head(a)) < Ord(Head(b))

RECURSIVE SortedLabels(_)
SortedLabels(S) ==
    IF S = {} THEN <<>>
    ELSE LET least == CHOOSE a \in S : \A b \in S \ {a} : LexLess(a, b)
         IN  <<least>> \o SortedLabels(S \ {least})

\* keys of gdf.groupby(['surveyDate']): sorted, rows with a missing label dropped
GroupKeys(gdf) == SortedLabels({gdf[k].row.surveyDate : k \in 1..Len(gdf)} \ {NaN})

RECURSIVE SelectLabel(_, _, _)
SelectLabel(gdf, label, k) ==
    IF k = 0 THEN <<>>
    ELSE IF gdf[k].row.surveyDate = label
         THEN Append(SelectLabel(gdf, label, k - 1), gdf[k])
         ELSE SelectLabel(gdf, label, k - 1)

\* the group of one key: its rows in frame order, with their index labels
Group(gdf, label) == SelectLabel(gdf, label, Len(gdf))

PeriodFileName(date_str) ==
    <<"T", "E", "S", "T", "_", "c", "s", "b", "_", "o", "u", "t", "p", "u", "t", "_">>
        \o date_str \o <<"_", "l", "e", "v", "e", "l", "1", "1">> \o GeojsonExt

\* a float: an exact fraction, or NaN
Float(v) == [num |-> v, den |-> 1]
NaNf == [num |-> 0, den |-> 0]

RECURSIVE SortInts(_)
SortInts(s) ==
    IF s = <<>> THEN <<>>
    ELSE LET k == CHOOSE a \in 1..Len(s) : \A b \in 1..Len(s) : s[a] <= s[b]
         IN  <<s[k]>> \o SortInts(SubSeq(s, 1, k - 1) \o SubSeq(s, k + 1, Len(s)))

\* mean of the two middle values
Mean2(a, b) == IF (a + b) % 2 = 0 THEN Float((a + b) \div 2) ELSE [num |-> a + b, den |-> 2]

\* Series.median(): missing values are skipped; NaN when nothing is left
median(values) ==
    LET present == SelectSeq(values, LAMBDA d : d # NaNf)
        sorted  == SortInts([k \in 1..Len(present) |-> present[k].num])
        n       == Len(sorted)
    IN  IF n = 0 THEN NaNf
        ELSE IF n % 2 = 1 THEN Float(sorted[(n + 1) \div 2])
        ELSE Mean2(sorted[n \div 2], sorted[n \div 2 + 1])

RECURSIVE SortedCells(_)
SortedCells(S) ==
    IF S = {} THEN <<>>
    ELSE LET least == CHOOSE a \in S : \A b \in S : a.id <= b.id
         IN  <<least>> \o SortedCells(S \ {least})

RECURSIVE DepthsOf(_, _, _)
DepthsOf(frame, h3_index, k) ==
    IF k = 0 THEN <<>>
    ELSE IF frame[k].row.h3_index = h3_index
         THEN Append(DepthsOf(frame, h3_index, k - 1), frame[k].row.depth)
         ELSE DepthsOf(frame, h3_index, k - 1)

\* df.groupby('h3_index').agg({'depth': 'median'}).reset_index()
groupby_median(frame) ==
    LET keys == SortedCells({frame[k].row.h3_index : k \in 1..Len(frame)})
    IN  RangeIndex([k \in 1..Len(keys) |->
            [h3_index |-> keys[k], depth |-> median(DepthsOf(frame, keys[k], Len(frame)))]])

InitCsb ==
    /\ nb = "csb" /\ pc = "submit"
    /\ fs = NoFiles
    /\ HexIdle /\ CsbIdle /\ DedupIdle

\* csb = csb_api_call(csb_api_url, email, bbox, beg_d, end_d)
SubmitOrder ==
    /\ nb = "csb" /\ pc = "submit"
    /\ \E status_code \in {200, 201, 500} :
          /\ post_status' = status_code
          /\ csb' = csb_api_call(status_code, OrderResponse)
          /\ order' = IF status_code = 201 THEN "pending" ELSE "none"
    /\ pc' = "status"
    /\ UNCHANGED <<nb, fs, firstQuery, csb_csv, csv, csb_gdf, gkeys>>
    /\ UNCHANGED <<df, grouped_df>>
    /\ UNCHANGED <<hexVars, dedupVars>>

\* the remote service finishes the order
OrderCompletes ==
    /\ nb = "csb" /\ order = "pending"
    /\ order' = "complete"
    /\ UNCHANGED <<nb, pc, fs, post_status, csb, firstQuery, csb_csv, csv, csb_gdf, gkeys>>
    /\ UNCHANGED <<df, grouped_df>>
    /\ UNCHANGED <<hexVars, dedupVars>>

\* csb_csv = api_call_status(csb["url"]): one GET; csb["url"] raises TypeError
\* when csb is None
QueryStatus ==
    /\ nb = "csb" /\ pc = "status"
    /\ IF csb = None
       THEN /\ pc' = "aborted"
            /\ UNCHANGED <<firstQuery, csb_csv>>
       ELSE \E status_code \in {200, 404} :
               /\ csb_csv' = api_call_status(status_code,
                                 [status |-> order, output_location |-> OutputLocation])
               /\ firstQuery' = IF status_code = 200 THEN order ELSE "error"
               /\ pc' = "create"
    /\ UNCHANGED <<nb, fs, post_status, csb, order, csv, csb_gdf, gkeys>>
    /\ UNCHANGED <<df, grouped_df>>
    /\ UNCHANGED <<hexVars, dedupVars>>

\* csb_gdf = create_csb_gdf(os.path.join(csb_pickup_url, csb_csv), metadata):
\* os.path.join raises TypeError when csb_csv is None
CreateGdf ==
    /\ nb = "csb" /\ pc = "create"
    /\ IF csb_csv = None
       THEN /\ pc' = "aborted"
            /\ UNCHANGED <<csv, csb_gdf>>
       ELSE \E csb_file \in SeqsUpTo(CsvRows, MaxCsvRows) :
               /\ csv' = csb_file
               /\ csb_gdf' = create_csb_gdf(csb_file, metadata)
               /\ pc' = "groupby"
    /\ UNCHANGED <<nb, fs, post_status, csb, order, firstQuery, csb_csv, gkeys>>
    /\ UNCHANGED <<df, grouped_df>>
    /\ UNCHANGED <<hexVars, dedupVars>>

\* grouped = csb_gdf.groupby(['surveyDate'])
GroupBy ==
    /\ nb = "csb" /\ pc = "groupby"
    /\ gkeys' = GroupKeys(csb_gdf)
    /\ pc' = "for_group"
    /\ UNCHANGED <<nb, fs, post_status, csb, order, firstQuery, csb_csv, csv, csb_gdf>>
    /\ UNCHANGED <<df, grouped_df>>
    /\ UNCHANGED <<hexVars, dedupVars>>

\* for date, group in grouped: drop_duplicates, reset_index, to_file
\* (date is the 1-tuple of the key, date[0] the label)
GroupStep ==
    /\ nb = "csb" /\ pc = "for_group"
    /\ IF gkeys = <<>>
       THEN /\ pc' = "agg"
            /\ UNCHANGED <<fs, gkeys>>
       ELSE LET date == <<Head(gkeys)>>
                group == Dedup(Group(csb_gdf, date[1]))
                date_str == date[1]
                filename == PeriodFileName(date_str)
            IN  /\ fs' = (filename :> to_file(group, "period", 11, 0)) @@ fs
                /\ gkeys' = Tail(gkeys)
                /\ UNCHANGED pc
    /\ UNCHANGED <<nb, post_status, csb, order, firstQuery, csb_csv, csv, csb_gdf>>
    /\ UNCHANGED <<df, grouped_df>>
    /\ UNCHANGED <<hexVars, dedupVars>>

\* grouped_df = df.groupby('h3_index').agg({'depth': 'median'}).reset_index():
\* looking up the global df raises NameError when no cell has bound it
Aggregate ==
    /\ nb = "csb" /\ pc = "agg"
    /\ IF df = Unbound
       THEN /\ pc' = "aborted"
            /\ UNCHANGED grouped_df
       ELSE /\ grouped_df' = groupby_median(df)
            /\ pc' = "done"
    /\ UNCHANGED <<nb, fs, post_status, csb, order, firstQuery, csb_csv, csv, csb_gdf, gkeys, df>>
    /\ UNCHANGED <<hexVars, dedupVars>>

NextCsb ==
    SubmitOrder \/ OrderCompletes \/ QueryStatus \/ CreateGdf \/ GroupBy \/ GroupStep \/ Aggregate

SpecCsb == InitCsb /\ [][NextCsb]_vars

\* either notebook
Init == InitHex \/ InitCsb

Next == NextHex \/ NextCsb

Spec == Init /\ [][Next]_vars

----------------------------------------------------------------------------
(* the dedup step of the merge loop and of the per-period loop, on its own *)

\* records of the artifacts of any level
ArtifactRows ==
    {[survey_id |-> survname, geometry |-> h3_to_geo_boundary(geo_to_h3(p, level))]
        : p \in Points, level \in Levels}

InitDedup ==
    /\ nb = "dedup" /\ pc = "dedup"
    /\ fs = NoFiles
    /\ X \in {RangeIndex(rows) : rows \in SeqsUpTo(ArtifactRows, MaxLen)}
    /\ once = <<>> /\ twice = <<>>
    /\ HexIdle /\ CsbIdle

\* deduplicated_gdf = comb_gdf.drop_duplicates().reset_index(drop=True)
DedupOnce ==
    /\ nb = "dedup" /\ pc = "dedup"
    /\ once' = Dedup(X)
    /\ pc' = "again"
    /\ UNCHANGED <<nb, fs, X, twice>>
    /\ UNCHANGED <<hexVars, csbVars>>

\* the same step on its own output
DedupTwice ==
    /\ nb = "dedup" /\ pc = "again"
    /\ twice' = Dedup(once)
    /\ pc' = "done"
    /\ UNCHANGED <<nb, fs, X, once>>
    /\ UNCHANGED <<hexVars, csbVars>>

NextDedup == DedupOnce \/ DedupTwice

SpecDedup == InitDedup /\ [][NextDedup]_vars

----------------------------------------------------------------------------
(* Properties *)

Terminated == pc \in {"done", "aborted"}

\* the csv was read and the dataset built from it
DatasetBuilt == nb = "csb" /\ csb_csv # None /\ pc \notin {"submit", "status", "create"}

\* the per-period loop has ended
PeriodLoopEnded == DatasetBuilt /\ pc \in {"agg", "done", "aborted"}

\* the median cell has run
AggCellRan == DatasetBuilt /\ pc \in {"done", "aborted"}

LevelFile(level) == LevelOutName(level, GeojsonExt)

NoDuplicateRows(rows) == \A a, b \in 1..Len(rows) : a # b => rows[a] # rows[b]

\* C1: once the merge loop has written the output of a level, that output holds
\* exactly one record for every cell touched by at least one of the sources, and
\* nothing else.
C1_Claim ==
    \A level \in Levels :
        (nb = "hex" /\ mergeRead[level] # {}) =>
            /\ Range(fs[LevelFile(level)].rows) =
                   {[survey_id |-> survname, geometry |-> h3_to_geo_boundary(h)]
                       : h \in h3_indices(level, allPts)}
            /\ NoDuplicateRows(fs[LevelFile(level)].rows)

\* C2: when the merge of a level reads its files, every source of the list has
\* been indexed at that level and its artifact is among the files read (none is
\* missing or replaced by the artifact of another source).
C2_Claim ==
    \A level \in Levels :
        (nb = "hex" /\ mergeRead[level] # {}) =>
            \A s \in 1..Len(lof) :
                /\ <<s, level>> \in indexed
                /\ \E f \in mergeRead[level] :
                      f.kind = "artifact" /\ f.level = level /\ f.by = s

\* C3: no persisted output (level file of the merge loop, period file of the
\* temporal loop) holds two records equal on all of their columns.
C3_Theorem ==
    \A n \in DOMAIN fs :
        fs[n].kind \in {"level", "shape", "period"} => NoDuplicateRows(fs[n].rows)

\* a period file was written from a group in which duplicates were collapsed
C3_Witness ==
    \E n \in DOMAIN fs :
        /\ fs[n].kind = "period"
        /\ Len(fs[n].rows) >= 2
        /\ Len(fs[n].rows) <
               Cardinality({k \in 1..Len(csb_gdf) :
                               csb_gdf[k].row.surveyDate = fs[n].rows[1].surveyDate})

\* C4: when one source of the list fails, the run still ends with the artifacts
\* of every other source written at every level and with every level persisted.
C4_Claim ==
    (nb = "hex" /\ Terminated /\ Cardinality(failedSrc) = 1) =>
        /\ \A s \in (1..Len(lof)) \ failedSrc : \A level \in Levels : <<s, level>> \in indexed
        /\ \A level \in Levels : LevelFile(level) \in DOMAIN fs

\* C5: if the order was pending when queried and has become complete since, the
\* run does not end without the output location and the dataset built from it.
C5_Claim ==
    (nb = "csb" /\ Terminated /\ firstQuery = "pending" /\ order = "complete") =>
        /\ csb_csv # None
        /\ DatasetBuilt

\* C6: the submission returns the order response exactly for status 201; for any
\* other status its result is None, distinct from every order response, and the
\* run issues no status query and builds no dataset.
C6_Theorem ==
    /\ post_status = 201 => csb = OrderResponse
    /\ (post_status # 0 /\ post_status # 201) =>
          /\ csb = None /\ csb # OrderResponse
          /\ firstQuery = "none" /\ csb_csv = None
          /\ csv = <<>> /\ csb_gdf = <<>>
          /\ pc \in {"status", "aborted"}
    /\ (firstQuery # "none" \/ csb_gdf # <<>>) => (post_status = 201 /\ csb = OrderResponse)

\* a rejected submission has stopped the run before the status query
C6_Witness == nb = "csb" /\ post_status = 500 /\ pc = "aborted" /\ csb = None

PeriodFiles == {n \in DOMAIN fs : fs[n].kind = "period"}

\* input record k is in the output n
InFile(k, n) == \E j \in 1..Len(fs[n].rows) : fs[n].rows[j] = csb_gdf[k].row

PeriodsOnly ==
    \A n \in PeriodFiles : \A j, k \in 1..Len(csv) :
        (InFile(j, n) /\ InFile(k, n)) => csv[j].time = csv[k].time

\* C7: the period outputs are pairwise disjoint, together hold every input
\* record, and each holds records of one year-month only.
C7_Claim ==
    PeriodLoopEnded =>
        /\ \A k \in 1..Len(csv) : Cardinality({n \in PeriodFiles : InFile(k, n)}) = 1
        /\ PeriodsOnly

\* rows of df that contribute a depth to the median of a cell
Present(h) == {k \in 1..Len(df) : df[k].row.h3_index = h /\ df[k].row.depth # NaNf}

\* the j-th smallest depth of a cell
OrderStat(h, j) ==
    CHOOSE v \in {df[k].row.depth.num : k \in Present(h)} :
        /\ Cardinality({k \in Present(h) : df[k].row.depth.num < v}) < j
        /\ j <= Cardinality({k \in Present(h) : df[k].row.depth.num <= v})

IsTrueMedian(m, h) ==
    LET n == Cardinality(Present(h))
    IN  IF n = 0 THEN m = NaNf
        ELSE /\ m.den > 0
             /\ IF n % 2 = 1
                THEN m.num = OrderStat(h, (n + 1) \div 2) * m.den
                ELSE 2 * m.num = (OrderStat(h, n \div 2) + OrderStat(h, n \div 2 + 1)) * m.den

OnePerCell ==
    /\ Len(grouped_df) = Cardinality({df[k].row.h3_index : k \in 1..Len(df)})
    /\ \A k \in 1..Len(df) :
          Cardinality({g \in 1..Len(grouped_df) :
                          grouped_df[g].row.h3_index = df[k].row.h3_index}) = 1

\* C8: once the median cell has run, grouped_df holds one summary record per
\* distinct cell identifier of its input, with the key, the count of
\* contributing records and the true median of their depths.
C8_Claim ==
    AggCellRan =>
        /\ df # Unbound /\ grouped_df # Unbound
        /\ OnePerCell
        /\ \A g \in 1..Len(grouped_df) :
              LET r == grouped_df[g].row
              IN  /\ "count" \in DOMAIN r
                  /\ r.count = Cardinality({k \in 1..Len(df) : df[k].row.h3_index = r.h3_index})
                  /\ IsTrueMedian(r.depth, r.h3_index)

\* C9: the dedup step applied to its own output gives the same records in the
\* same order, with the same contiguous positions 0..n-1, as applied once.
C9_Theorem ==
    (nb = "dedup" /\ pc = "done") =>
        /\ twice = once
        /\ \A k \in 1..Len(once) : once[k].idx = k - 1
        /\ \A k \in 1..Len(twice) : twice[k].idx = k - 1

\* duplicates of X were collapsed and more than one record is left
C9_Witness ==
    /\ nb = "dedup" /\ pc = "done"
    /\ Len(once) < Len(X) /\ Len(once) >= 2
    /\ X[1].row = X[Len(X)].row

\* C10: the files the merge selects for a level, in the directory as it is at any
\* moment and as read by any run of the merge loop, are only intermediate
\* artifacts indexed at that level: never an artifact of another level, never a
\* persisted level output.
C10_Theorem ==
    nb = "hex" =>
        \A level \in Levels :
            /\ \A n \in gjson_lof(level) :
                  n \in DOMAIN fs /\ fs[n].kind = "artifact" /\ fs[n].level = level
            /\ \A f \in mergeRead[level] : f.kind = "artifact" /\ f.level = level

\* the merge loop has run a second time and has read the files of level 10
C10_Witness ==
    /\ nb = "hex" /\ mergeRuns = 2 /\ mergeRead[10] # {}
    /\ \A level \in Levels : LevelFile(level) \in DOMAIN fs

====
